---- MODULE Spec2Model ----
(***************************************************************************)
(* vector_operations (src/src/lib.rs): sub, add, scale and                 *)
(* matrix_vec_multiply over fixed-length arrays [T; F] and [[T; N]; M].    *)
(*                                                                         *)
(* T is instantiated with a signed two's-complement integer of TBits bits. *)
(* The arithmetic operators of such a T depend on the build: with          *)
(* overflow checks (cargo's dev and test profiles) an overflowing +, - or  *)
(* * panics, without them (release profile) it wraps.  The build is the    *)
(* variable overflow_checks, chosen once in Init.                          *)
(*                                                                         *)
(* One call is modelled per behaviour: Init picks the function and its     *)
(* arguments, the actions run it.  sub, add and scale are one action each; *)
(* matrix_vec_multiply is run statement by statement (pc, i, j, result).   *)
(* A call ends in pc = "returned" (result holds the returned array) or in  *)
(* pc = "panicked".                                                        *)
(***************************************************************************)
EXTENDS Integers, Sequences, FiniteSets

VARIABLES
    overflow_checks, \* build profile: TRUE = overflowing arithmetic panics
    func,            \* the function called
    vec_a, vec_b,    \* arguments of sub and add
    vec, scalar,     \* arguments of scale
    matrix, vector,  \* arguments of matrix_vec_multiply
    pc,              \* position of the call
    i, j,            \* loop counters of matrix_vec_multiply (0-based)
    result           \* the array under construction / returned

vars == <<overflow_checks, func, vec_a, vec_b, vec, scalar, matrix, vector,
          pc, i, j, result>>

---------------------------------------------------------------------------
(* Bounds of the model *)

\* width in bits of the integer type T is instantiated with
TBits == 8
\* largest array length F of sub, add and scale
MaxLen == 2
\* largest M and N of matrix_vec_multiply
MaxDim == 2

---------------------------------------------------------------------------
(* The element type T *)

MinT == -(2 ^ (TBits - 1))
MaxT == (2 ^ (TBits - 1)) - 1

InRange(x) == MinT <= x /\ x <= MaxT

\* (mutant of Wrap: overflow saturates at T's bounds instead of wrapping)
Wrap_Saturating(x) == IF x < MinT THEN MinT ELSE IF x > MaxT THEN MaxT ELSE x

\* two's-complement wraparound of a mathematical integer into T
Wrap(x) == ((x - MinT) % (2 ^ TBits)) + MinT

\* an arithmetic result that leaves T's range panics in a build with
\* overflow checks
Overflows(x) == overflow_checks /\ ~InRange(x)

\* T::default() of an integer type
Zero == 0

\* outcome of a call: it returned a value, or it panicked
Returned(v) == [panicked |-> FALSE, value |-> v]
Panicked == [panicked |-> TRUE, value |-> <<>>]

---------------------------------------------------------------------------
(* Iterator adaptors used by sub, add and scale *)

MinOf(x, y) == IF x <= y THEN x ELSE y

\* a.iter().zip(b.iter()): stops at the shorter of the two
Zip(a, b) == [k \in 1..MinOf(Len(a), Len(b)) |-> <<a[k], b[k]>>]

\* Vec<T> -> [T; F]: Ok only when the Vec holds exactly F elements;
\* unwrap() panics on Err
TryIntoUnwrap(v, F) == IF Len(v) = F THEN Returned(v) ELSE Panicked

\* .map(f).collect::<Vec<T>>() where f(x) is the mathematical result of the
\* element operation: the first overflowing element panics (checked build),
\* otherwise every element is wrapped into T
MapCollect(xs) ==
    IF \E k \in 1..Len(xs) : Overflows(xs[k])
    THEN Panicked
    ELSE Returned([k \in 1..Len(xs) |-> Wrap(xs[k])])

---------------------------------------------------------------------------
(* The three element-wise functions; F is the const generic length *)

\* (mutant of SubElems: the operands swapped, b - a)
SubElems_Swapped(a, b) ==
    [k \in 1..Len(Zip(a, b)) |-> Zip(a, b)[k][2] - Zip(a, b)[k][1]]

\* |(a, b)| *a - *b, before the result is fitted into T
SubElems(a, b) == [k \in 1..Len(Zip(a, b)) |-> Zip(a, b)[k][1] - Zip(a, b)[k][2]]

sub(F, a, b) ==
    LET c == MapCollect(SubElems(a, b))
    IN  IF c.panicked THEN Panicked ELSE TryIntoUnwrap(c.value, F)

\* (mutant of AddElems: subtracts, as in a body copied from sub)
AddElems_Subtracts(a, b) ==
    [k \in 1..Len(Zip(a, b)) |-> Zip(a, b)[k][1] - Zip(a, b)[k][2]]

\* |(a, b)| *a + *b, before the result is fitted into T
AddElems(a, b) == [k \in 1..Len(Zip(a, b)) |-> Zip(a, b)[k][1] + Zip(a, b)[k][2]]

add(F, a, b) ==
    LET c == MapCollect(AddElems(a, b))
    IN  IF c.panicked THEN Panicked ELSE TryIntoUnwrap(c.value, F)

\* (mutant of ScaleElems: adds the scalar instead of multiplying by it)
ScaleElems_Adds(v, k) == [n \in 1..Len(v) |-> v[n] + k]

\* |a| *a * *scalar, before the result is fitted into T
ScaleElems(v, k) == [n \in 1..Len(v) |-> v[n] * k]

scale(F, v, k) ==
    LET c == MapCollect(ScaleElems(v, k))
    IN  IF c.panicked THEN Panicked ELSE TryIntoUnwrap(c.value, F)

---------------------------------------------------------------------------
(* matrix_vec_multiply, statement by statement.  A loop state is the record *)
(* [pc, i, j, result]; M = Len(m) and N = Len(v) are the const generics of  *)
(* matrix: &[[T; N]; M] and vector: &[T; N].                                *)

\* let zero = T::default(); let mut result = [zero; M];
MvmEntry(m, v) ==
    [pc |-> "for_i", i |-> 0, j |-> 0, result |-> [k \in 1..Len(m) |-> Zero]]

\* for i in 0..M
MvmForI(m, v, ls) ==
    IF ls.i < Len(m)
    THEN [ls EXCEPT !.pc = "for_j", !.j = 0]
    ELSE [ls EXCEPT !.pc = "returned"]

\* the array index matrix[j][i] (0-based j, i), bounds-checked
IndexInBounds(m, jj, ii) == jj < Len(m) /\ ii < Len(m[jj + 1])

\* (mutant of Product: row-major indexing, matrix[i][j] * vector[j])
Product_RowMajor(m, v, ii, jj) == m[ii + 1][jj + 1] * v[jj + 1]

\* matrix[j][i] * vector[j], as a mathematical integer
Product(m, v, ii, jj) == m[jj + 1][ii + 1] * v[jj + 1]

\* (mutant of MvmBody: assigns, result[i] = ..., instead of accumulating)
MvmBody_Assigns(m, v, ls) ==
    IF ~IndexInBounds(m, ls.j, ls.i)
    THEN [ls EXCEPT !.pc = "panicked"]
    ELSE LET p == Product(m, v, ls.i, ls.j)
         IN  IF Overflows(p)
             THEN [ls EXCEPT !.pc = "panicked"]
             ELSE [ls EXCEPT !.result[ls.i + 1] = Wrap(p), !.j = ls.j + 1]

\* result[i] += matrix[j][i] * vector[j];
MvmBody(m, v, ls) ==
    IF ~IndexInBounds(m, ls.j, ls.i)
    THEN [ls EXCEPT !.pc = "panicked"]
    ELSE LET p == Product(m, v, ls.i, ls.j)
             s == ls.result[ls.i + 1] + Wrap(p)
         IN  IF Overflows(p) \/ Overflows(s)
             THEN [ls EXCEPT !.pc = "panicked"]
             ELSE [ls EXCEPT !.result[ls.i + 1] = Wrap(s), !.j = ls.j + 1]

\* (mutant of MvmForJ: the range stops one short, 0..N-1)
MvmForJ_OneShort(m, v, ls) ==
    IF ls.j < Len(v) - 1
    THEN MvmBody(m, v, ls)
    ELSE [ls EXCEPT !.pc = "for_i", !.i = ls.i + 1]

\* for j in 0..N
MvmForJ(m, v, ls) ==
    IF ls.j < Len(v)
    THEN MvmBody(m, v, ls)
    ELSE [ls EXCEPT !.pc = "for_i", !.i = ls.i + 1]

MvmStep(m, v, ls) ==
    IF ls.pc = "for_i" THEN MvmForI(m, v, ls) ELSE MvmForJ(m, v, ls)

RECURSIVE MvmRun(_, _, _)
MvmRun(m, v, ls) ==
    IF ls.pc \in {"returned", "panicked"}
    THEN ls
    ELSE MvmRun(m, v, MvmStep(m, v, ls))

\* the whole call, as a function of its arguments
matrix_vec_multiply(m, v) ==
    LET end == MvmRun(m, v, MvmEntry(m, v))
    IN  IF end.pc = "panicked" THEN Panicked ELSE Returned(end.result)

---------------------------------------------------------------------------
(* Arguments *)

\* element values: the extremes of T and small values around zero
Vals == {MinT, -1, 0, 1, 2, MaxT}
\* matrix entries
MatVals == {-1, 0, 2}
\* vector entries of matrix_vec_multiply
VecVals == {MinT, 3}

Arrays(S, n) == [1..n -> S]

Identity(n) == [r \in 1..n |-> [c \in 1..n |-> IF r = c THEN 1 ELSE 0]]

\* the arguments of tests::test_matrix_vec_multiply and of the doc example
TestMatrix == <<<<1, 2>>, <<-3, 4>>>>
TestVector == <<5, 7>>

\* [[T; N]; M]: M rows of N entries
Matrices(M, N) ==
    Arrays(Arrays(MatVals, N), M) \cup (IF M = N THEN {Identity(N)} ELSE {})

MvmArgs ==
    {<<m, v>> : m \in {TestMatrix}, v \in {TestVector}} \cup
    UNION {Matrices(M, N) \X Arrays(VecVals, N) : M \in 1..MaxDim, N \in 1..MaxDim}

Funcs == {"sub", "add", "scale", "matrix_vec_multiply"}

---------------------------------------------------------------------------
(* The state machine *)

Init ==
    /\ overflow_checks \in BOOLEAN
    /\ func \in Funcs
    /\ pc = "call"
    /\ i = 0 /\ j = 0
    /\ result = <<>>
    /\ \/ /\ func \in {"sub", "add"}
          /\ \E F \in 0..MaxLen :
                vec_a \in Arrays(Vals, F) /\ vec_b \in Arrays(Vals, F)
          /\ vec = <<>> /\ scalar = 0 /\ matrix = <<>> /\ vector = <<>>
       \/ /\ func = "scale"
          /\ \E F \in 0..MaxLen : vec \in Arrays(Vals, F)
          /\ scalar \in Vals
          /\ vec_a = <<>> /\ vec_b = <<>> /\ matrix = <<>> /\ vector = <<>>
       \/ /\ func = "matrix_vec_multiply"
          /\ \E a \in MvmArgs : matrix = a[1] /\ vector = a[2]
          /\ vec_a = <<>> /\ vec_b = <<>> /\ vec = <<>> /\ scalar = 0

Finish(r) ==
    /\ pc' = IF r.panicked THEN "panicked" ELSE "returned"
    /\ result' = r.value
    /\ UNCHANGED <<overflow_checks, func, vec_a, vec_b, vec, scalar, matrix,
                   vector, i, j>>

Sub == func = "sub" /\ pc = "call" /\ Finish(sub(Len(vec_a), vec_a, vec_b))

Add == func = "add" /\ pc = "call" /\ Finish(add(Len(vec_a), vec_a, vec_b))

Scale == func = "scale" /\ pc = "call" /\ Finish(scale(Len(vec), vec, scalar))

LoopState == [pc |-> pc, i |-> i, j |-> j, result |-> result]

Goto(ls) ==
    /\ pc' = ls.pc /\ i' = ls.i /\ j' = ls.j /\ result' = ls.result
    /\ UNCHANGED <<overflow_checks, func, vec_a, vec_b, vec, scalar, matrix,
                   vector>>

MvmCall ==
    func = "matrix_vec_multiply" /\ pc = "call" /\ Goto(MvmEntry(matrix, vector))

ForI ==
    func = "matrix_vec_multiply" /\ pc = "for_i"
        /\ Goto(MvmForI(matrix, vector, LoopState))

ForJ ==
    func = "matrix_vec_multiply" /\ pc = "for_j"
        /\ Goto(MvmForJ(matrix, vector, LoopState))

Next == Sub \/ Add \/ Scale \/ MvmCall \/ ForI \/ ForJ

Spec == Init /\ [][Next]_vars

---------------------------------------------------------------------------
(* Reference values the properties compare against *)

IsMvm == func = "matrix_vec_multiply"
Ended == pc \in {"returned", "panicked"}

\* sum over c = 1..n of m[r][c] * v[c] (row r of m times v), unbounded
RECURSIVE DotRow(_, _, _, _)
DotRow(m, v, r, n) ==
    IF n = 0 THEN 0 ELSE DotRow(m, v, r, n - 1) + m[r][n] * v[n]

\* sum over k = 1..n of m[k][c] * v[k] (column c of m times v), unbounded
RECURSIVE DotCol(_, _, _, _)
DotCol(m, v, c, n) ==
    IF n = 0 THEN 0 ELSE DotCol(m, v, c, n - 1) + m[n][c] * v[n]

---------------------------------------------------------------------------
(* Properties of matrix_vec_multiply *)

\* C1: for every M x N matrix and vector of length N, the returned vector has
\* length M and its element i is the sum over j of matrix[i][j] * vector[j]
\* (in T's arithmetic).
C1_RowProduct ==
    (IsMvm /\ pc = "returned") =>
        /\ Len(result) = Len(matrix)
        /\ \A r \in 1..Len(matrix) :
              result[r] = Wrap(DotRow(matrix, vector, r, Len(vector)))

\* C2: matrix_vec_multiply([[1,2],[-3,4]], [5,7]) returns [-16,38].
C2_TestScenario ==
    (IsMvm /\ matrix = TestMatrix /\ vector = TestVector /\ Ended) =>
        pc = "returned" /\ result = <<-16, 38>>

C2_Witness ==
    /\ IsMvm /\ matrix = <<<<1, 2>>, <<-3, 4>>>> /\ vector = <<5, 7>>
    /\ pc = "returned" /\ result = <<-16, 38>>

\* C3: with the vector's length equal to the column count, the call never
\* evaluates an out-of-range index, never aborts (an arithmetic overflow of a
\* build with overflow checks is not counted against the claim) and returns a
\* result of length M, also when M /= N.
C3_NoAbort ==
    IsMvm =>
        /\ (pc = "for_j" /\ j < Len(vector)) => IndexInBounds(matrix, j, i)
        /\ pc = "panicked" => overflow_checks
        /\ pc = "returned" => Len(result) = Len(matrix)

\* C8: the N x N identity matrix times v returns v unchanged.
C8_Identity ==
    (IsMvm /\ matrix = Identity(Len(vector)) /\ Ended) =>
        pc = "returned" /\ result = vector

C8_Witness ==
    /\ IsMvm /\ Len(vector) >= 2 /\ matrix = Identity(Len(vector))
    /\ vector[1] /= vector[2]
    /\ pc = "returned" /\ result = vector

\* C10: in the accumulation loop every result element starts at zero and each
\* step adds matrix[j][i] * vector[j] to result[i]: rows not yet started are
\* zero, the row in progress holds the partial sum over the j already done,
\* finished rows hold their full sum (so they are not written again), and the
\* returned element i is the sum over j of matrix[j][i] * vector[j]: the
\* transposed matrix times the vector.
C10_LoopInvariant ==
    (IsMvm /\ pc \in {"for_i", "for_j", "returned"}) =>
        /\ Len(result) = Len(matrix)
        /\ i <= Len(matrix)
        /\ pc = "returned" => i = Len(matrix)
        /\ \A r \in 1..Len(matrix) :
              result[r] =
                 IF r - 1 < i THEN Wrap(DotCol(matrix, vector, r, Len(vector)))
                 ELSE IF r - 1 = i /\ pc = "for_j"
                      THEN Wrap(DotCol(matrix, vector, r, j))
                      ELSE Zero

\* a square, non-symmetric matrix has been multiplied and returned, and a
\* later row was still zero while an earlier one was being accumulated
C10_Witness ==
    /\ IsMvm /\ pc = "returned"
    /\ Len(matrix) = 2 /\ Len(vector) = 2
    /\ matrix[1][2] /= matrix[2][1]
    /\ result[1] = Wrap(matrix[1][1] * vector[1] + matrix[2][1] * vector[2])
    /\ result[2] = Wrap(matrix[1][2] * vector[1] + matrix[2][2] * vector[2])
    /\ result[1] /= Wrap(matrix[1][1] * vector[1] + matrix[1][2] * vector[2])

---------------------------------------------------------------------------
(* Properties of sub, add and scale *)

\* some element of xs (mathematical results) is outside T's range
SomeOutOfRange(xs) == \E n \in 1..Len(xs) : ~InRange(xs[n])

Sums == [n \in 1..Len(vec_a) |-> vec_a[n] + vec_b[n]]
Diffs == [n \in 1..Len(vec_a) |-> vec_a[n] - vec_b[n]]
Prods == [n \in 1..Len(vec) |-> vec[n] * scalar]

\* C4 as stated: for all a, b of equal length F (F = 0 included) add(a, b)
\* completes and returns a vector of length F with element i equal to
\* a[i] + b[i] (T's addition).
C4_AddTotal ==
    (func = "add" /\ pc /= "call") =>
        /\ pc = "returned"
        /\ Len(result) = Len(vec_a)
        /\ \A n \in 1..Len(vec_a) : result[n] = Wrap(Sums[n])

\* C4 amended: add(a, b) panics exactly when the build checks overflow and
\* some a[i] + b[i] leaves T's range; otherwise it completes and returns a
\* vector of length F with element i equal to a[i] + b[i], wrapped into T.
C4_AddAmended ==
    (func = "add" /\ pc /= "call") =>
        IF overflow_checks /\ SomeOutOfRange(Sums)
        THEN pc = "panicked"
        ELSE /\ pc = "returned"
             /\ Len(result) = Len(vec_a)
             /\ \A n \in 1..Len(vec_a) : result[n] = Wrap(Sums[n])

C4_Witness ==
    /\ func = "add" /\ pc = "returned" /\ Len(vec_a) = 2
    /\ vec_a[1] /= vec_b[1] /\ vec_b[2] /= 0
    /\ InRange(Sums[1]) /\ InRange(Sums[2])
    /\ result = <<vec_a[1] + vec_b[1], vec_a[2] + vec_b[2]>>

\* C5 as stated: for all a, b of equal length F (F = 0 included) sub(a, b)
\* completes and returns a vector of length F with element i equal to
\* a[i] - b[i]: the first argument is the minuend.
C5_SubTotal ==
    (func = "sub" /\ pc /= "call") =>
        /\ pc = "returned"
        /\ Len(result) = Len(vec_a)
        /\ \A n \in 1..Len(vec_a) : result[n] = Wrap(Diffs[n])

\* C5 amended: sub(a, b) panics exactly when the build checks overflow and
\* some a[i] - b[i] leaves T's range; otherwise it completes and returns a
\* vector of length F with element i equal to a[i] - b[i], wrapped into T.
C5_SubAmended ==
    (func = "sub" /\ pc /= "call") =>
        IF overflow_checks /\ SomeOutOfRange(Diffs)
        THEN pc = "panicked"
        ELSE /\ pc = "returned"
             /\ Len(result) = Len(vec_a)
             /\ \A n \in 1..Len(vec_a) : result[n] = Wrap(Diffs[n])

C5_Witness ==
    /\ func = "sub" /\ pc = "returned" /\ Len(vec_a) = 2
    /\ vec_a[1] /= vec_b[1] /\ vec_a[2] /= vec_b[2]
    /\ InRange(Diffs[1]) /\ InRange(Diffs[2])
    /\ result = <<vec_a[1] - vec_b[1], vec_a[2] - vec_b[2]>>
    /\ result /= <<vec_b[1] - vec_a[1], vec_b[2] - vec_a[2]>>

\* C6 as stated: for every v of length F and every scalar k, scale(v, k)
\* completes and returns a vector of length F with element i equal to
\* v[i] * k; scale(v, 1) = v and scale(v, 0) is the all-zero vector.
C6_ScaleTotal ==
    (func = "scale" /\ pc /= "call") =>
        /\ pc = "returned"
        /\ Len(result) = Len(vec)
        /\ \A n \in 1..Len(vec) : result[n] = Wrap(Prods[n])
        /\ scalar = 1 => result = vec
        /\ scalar = 0 => result = [n \in 1..Len(vec) |-> 0]

\* C6 amended: scale(v, k) panics exactly when the build checks overflow and
\* some v[i] * k leaves T's range; otherwise it completes and returns a
\* vector of length F with element i equal to v[i] * k, wrapped into T.
\* scale(v, 1) = v and scale(v, 0) is the all-zero vector, in every build.
C6_ScaleAmended ==
    (func = "scale" /\ pc /= "call") =>
        /\ IF overflow_checks /\ SomeOutOfRange(Prods)
           THEN pc = "panicked"
           ELSE /\ pc = "returned"
                /\ Len(result) = Len(vec)
                /\ \A n \in 1..Len(vec) : result[n] = Wrap(Prods[n])
        /\ scalar = 1 => (pc = "returned" /\ result = vec)
        /\ scalar = 0 => (pc = "returned" /\ result = [n \in 1..Len(vec) |-> 0])

C6_Witness ==
    /\ func = "scale" /\ pc = "returned" /\ Len(vec) = 2
    /\ scalar = 2 /\ vec[1] /= vec[2] /\ vec[1] /= 0 /\ vec[2] /= 0
    /\ InRange(Prods[1]) /\ InRange(Prods[2])
    /\ result = <<vec[1] * 2, vec[2] * 2>>

---------------------------------------------------------------------------
(* Algebraic laws; a panic of an inner call is a panic of the expression *)

\* scale(add(a, b), k)
ScaleOfAdd(F, a, b, k) ==
    LET s == add(F, a, b)
    IN  IF s.panicked THEN Panicked ELSE scale(F, s.value, k)

\* add(scale(a, k), scale(b, k))
AddOfScales(F, a, b, k) ==
    LET x == scale(F, a, k)
        y == scale(F, b, k)
    IN  IF x.panicked \/ y.panicked THEN Panicked ELSE add(F, x.value, y.value)

\* C9 as stated: scale(add(a, b), k) and add(scale(a, k), scale(b, k)) agree
\* for all a, b of equal length and every k in T's native arithmetic, also
\* where an intermediate sum or product leaves T's range.
C9_Distributive ==
    (func = "add" /\ pc /= "call") =>
        \A k \in Vals :
            ScaleOfAdd(Len(vec_a), vec_a, vec_b, k)
                = AddOfScales(Len(vec_a), vec_a, vec_b, k)

\* C9 amended: in a build whose arithmetic wraps both sides complete and are
\* equal, also where an intermediate sum or product leaves T's range; in a
\* build with overflow checks they are equal whenever both complete (one
\* side may panic where the other returns).
C9_DistributiveAmended ==
    (func = "add" /\ pc /= "call") =>
        \A k \in Vals :
            LET l == ScaleOfAdd(Len(vec_a), vec_a, vec_b, k)
                r == AddOfScales(Len(vec_a), vec_a, vec_b, k)
            IN  /\ ~overflow_checks => (~l.panicked /\ ~r.panicked)
                /\ (~l.panicked /\ ~r.panicked) => l = r

\* add has returned in the wrapping build with an element sum outside T's
\* range, and for k = 2 both sides agree on a nonzero vector
C9_Witness ==
    /\ func = "add" /\ pc = "returned" /\ ~overflow_checks
    /\ Len(vec_a) = 2 /\ ~InRange(Sums[1]) /\ ~InRange(2 * vec_a[2])
    /\ LET l == ScaleOfAdd(2, vec_a, vec_b, 2)
       IN  /\ l = AddOfScales(2, vec_a, vec_b, 2)
           /\ ~l.panicked /\ l.value[1] /= 0 /\ l.value[2] /= 0

\* matrix_vec_multiply(m, add(v1, v2))
MvmOfAdd(m, v1, v2) ==
    LET s == add(Len(v1), v1, v2)
    IN  IF s.panicked THEN Panicked ELSE matrix_vec_multiply(m, s.value)

\* add(matrix_vec_multiply(m, v1), matrix_vec_multiply(m, v2))
AddOfMvms(m, v1, v2) ==
    LET x == matrix_vec_multiply(m, v1)
        y == matrix_vec_multiply(m, v2)
    IN  IF x.panicked \/ y.panicked THEN Panicked
        ELSE add(Len(m), x.value, y.value)

\* C7: for every M x N matrix m and all v1, v2 of length N,
\* matrix_vec_multiply(m, add(v1, v2)) equals
\* add(matrix_vec_multiply(m, v1), matrix_vec_multiply(m, v2)).  Stated for
\* the build whose arithmetic wraps, where no overflow can abort either side.
C7_Linearity ==
    (IsMvm /\ ~overflow_checks /\ Ended) =>
        \A v2 \in Arrays(VecVals, Len(vector)) :
            LET l == MvmOfAdd(matrix, vector, v2)
                r == AddOfMvms(matrix, vector, v2)
            IN  ~l.panicked /\ ~r.panicked /\ l.value = r.value

====
